---- MODULE Spec2Model ----
(***************************************************************************)
(* A model of spellb.py, a single-player Spelling-Bee game: the letter     *)
(* pool (validated or generated), the word list filtered from the          *)
(* dictionary, the scoring of a word, the command interpreter and the      *)
(* input loop.  Strings are sequences of one-character strings.            *)
(***************************************************************************)
EXTENDS Integers, Sequences, FiniteSets, TLC

VARIABLES
    pc,                  \* position of the program
    dictionary,          \* lines of MASTER_WORD_LIST, without their line ends
    pool_arg,            \* the --pool argument (<<>> when absent)
    letter_pool,         \* SpellB.letter_pool
    word_list,           \* SpellB.word_list
    found_words,         \* SpellB.found_words
    score,               \* SpellB.score
    best_possible_score, \* SpellB.best_possible_score
    user_input,          \* the lowercased line read by the input loop
    points,              \* points returned by evaluate_word
    reason,              \* message returned by evaluate_word
    printed,             \* what the current step wrote to the terminal
    exit_code            \* status of sys.exit, -1 while the process runs

vars == <<pc, dictionary, pool_arg, letter_pool, word_list, found_words, score,
          best_possible_score, user_input, points, reason, printed, exit_code>>

Range(s) == {s[i] : i \in 1..Len(s)}

----------------------------------------------------------------------------
(* Characters and the str methods the program uses *)

LowerAZ == <<"a","b","c","d","e","f","g","h","i","j","k","l","m",
             "n","o","p","q","r","s","t","u","v","w","x","y","z">>

UpperAZ == <<"A","B","C","D","E","F","G","H","I","J","K","L","M",
             "N","O","P","Q","R","S","T","U","V","W","X","Y","Z">>

\* alphabetic characters outside ASCII
NonAsciiAlpha == {"é"}

Whitespace == {" ", "\t", "\n", "\r"}

IsLowerAZ(c) == c \in Range(LowerAZ)

IsUpperAZ(c) == c \in Range(UpperAZ)

\* str.lower, one character
CharLower(c) ==
    IF IsUpperAZ(c) THEN LowerAZ[CHOOSE i \in 1..Len(UpperAZ) : UpperAZ[i] = c] ELSE c

\* str.upper, one character
CharUpper(c) ==
    IF IsLowerAZ(c) THEN UpperAZ[CHOOSE i \in 1..Len(LowerAZ) : LowerAZ[i] = c] ELSE c

StrLower(s) == [i \in 1..Len(s) |-> CharLower(s[i])]

\* str.isalpha: non-empty and every character alphabetic
IsAlpha(s) ==
    /\ Len(s) > 0
    /\ \A i \in 1..Len(s) : IsLowerAZ(s[i]) \/ IsUpperAZ(s[i]) \/ s[i] \in NonAsciiAlpha

\* str.isascii
IsAscii(s) == \A i \in 1..Len(s) : s[i] \notin NonAsciiAlpha

\* str.startswith
StartsWith(s, prefix) ==
    /\ Len(prefix) <= Len(s)
    /\ \A i \in 1..Len(prefix) : s[i] = prefix[i]

RECURSIVE LStrip(_)
LStrip(s) == IF s # <<>> /\ Head(s) \in Whitespace THEN LStrip(Tail(s)) ELSE s

RECURSIVE RStrip(_)
RStrip(s) ==
    IF s # <<>> /\ s[Len(s)] \in Whitespace THEN RStrip(SubSeq(s, 1, Len(s) - 1)) ELSE s

\* str.strip
Strip(s) == RStrip(LStrip(s))

\* re.match(r'^[<class>]+$', s): $ also matches before one trailing newline
ReMatchAll(class, s) ==
    \E n \in {Len(s), Len(s) - 1} :
        /\ n >= 1
        /\ \A i \in 1..n : s[i] \in class
        /\ n = Len(s) \/ s[Len(s)] = "\n"

\* re.search(r'[<class>]', s)
ReSearch(class, s) == \E i \in 1..Len(s) : s[i] \in class

Vowels == {"a", "e", "i", "o", "u", "y"}

\* the characters of s in order of first occurrence: the members of set(s)
RECURSIVE Distinct(_)
Distinct(s) ==
    IF s = <<>> THEN <<>>
    ELSE LET d == Distinct(SubSeq(s, 1, Len(s) - 1))
         IN  IF s[Len(s)] \in Range(d) THEN d ELSE Append(d, s[Len(s)])

\* every order in which the elements of s can be drawn: random.sample(s, k=len(s)),
\* and the iteration orders of a set
Orderings(s) == {[i \in 1..Len(s) |-> s[p[i]]] : p \in Permutations(1..Len(s))}

----------------------------------------------------------------------------
(* Program constants *)

PoolSize == 7

MinWordLen == 4

PangramBonus == 7

CMD_cheat   == <<"c","h","e","a","t">>
CMD_help    == <<"h","e","l","p">>
CMD_list    == <<"l","i","s","t">>
CMD_score   == <<"s","c","o","r","e">>
CMD_show    == <<"s","h","o","w">>
CMD_shuffle == <<"s","h","u","f","f","l","e">>
CMD_quit    == <<"q","u","i","t">>
CMD_target  == <<"t","a","r","g","e","t">>

COMMANDS ==
    << [name |-> CMD_cheat,   hidden |-> TRUE],
       [name |-> CMD_help,    hidden |-> FALSE],
       [name |-> CMD_list,    hidden |-> FALSE],
       [name |-> CMD_score,   hidden |-> FALSE],
       [name |-> CMD_show,    hidden |-> FALSE],
       [name |-> CMD_shuffle, hidden |-> FALSE],
       [name |-> CMD_quit,    hidden |-> FALSE],
       [name |-> CMD_target,  hidden |-> FALSE] >>

MsgInvalidChars  == "Invalid characters in word"
MsgNoCenter      == "Center letter not used"
MsgTooShort      == "Too short"
MsgInvalidWord   == "Invalid word"
MsgAlreadyFound  == "Already found"
MsgPangram       == "Pangram!"
MsgPoolChars     == "Invalid characters in letter pool"
MsgPoolFormat    == "Invalid letter pool format"
MsgPoolCount     == "A letter pool must contain exactly seven unique letters"
MsgInvalidCmd    == "Invalid command"
MsgAmbiguousCmd  == "Ambiguous command"

----------------------------------------------------------------------------
(* The dictionary scan shared by generate_letter_pool and prepare_word_list: *)
(* `while word := file.readline().strip()` stops at the end of the file and  *)
(* at the first line that is empty once stripped.                            *)

RECURSIVE ReadWords(_)
ReadWords(lines) ==
    IF lines = <<>> THEN <<>>
    ELSE LET word == Strip(Head(lines))
         IN  IF word = <<>> THEN <<>> ELSE <<word>> \o ReadWords(Tail(lines))

----------------------------------------------------------------------------
(* SpellB.validate_letter_pool: the set of outcomes, one per iteration order *)
(* of set(pool).  exit = 1 is sys.exit(1).                                   *)

\* PoolCenter taking the first character whatever the capitals
PoolCenter_FirstCharacter(caps, lowered) == lowered[1]

\* the center: the capital, lowercased, or else the first character
PoolCenter(caps, lowered) ==
    IF caps # <<>> THEN CharLower(caps[1]) ELSE lowered[1]

validate_letter_pool(pool) ==
    IF ~IsAlpha(pool) \/ ~IsAscii(pool)
    THEN {[exit |-> 1, message |-> MsgPoolChars, letter_pool |-> <<>>]}
    ELSE
    LET caps == SelectSeq(pool, IsUpperAZ) IN
    IF Len(caps) > 1
    THEN {[exit |-> 1, message |-> MsgPoolFormat, letter_pool |-> <<>>]}
    ELSE
    LET lowered == StrLower(pool)
        center  == PoolCenter(caps, lowered)
        members == Distinct(lowered)
        NotCenter(c) == c # center
    IN  IF Len(members) # PoolSize
        THEN {[exit |-> 1, message |-> MsgPoolCount, letter_pool |-> <<>>]}
        ELSE {[exit |-> 0, message |-> "", letter_pool |-> <<center>> \o rest] :
                 rest \in Orderings(SelectSeq(members, NotCenter))}

(* SpellB.generate_letter_pool: every pool it can draw.  The empty set is    *)
(* the ValueError of random.randint(0, -1) when no word qualifies.           *)

IsCandidate(word) ==
    /\ ~(Len(word) < PoolSize)
    /\ ~(Len(Distinct(word)) # PoolSize)
    /\ ReSearch(Vowels, word)
    /\ ~ReSearch(Range(word) \ Range(LowerAZ), word)

generate_letter_pool(lines) ==
    LET candidates == SelectSeq(ReadWords(lines), IsCandidate)
    IN  UNION {Orderings(Distinct(candidates[i])) : i \in 1..Len(candidates)}

(* SpellB.prepare_word_list *)

\* prepare_word_list without the test for a vowel or y
prepare_word_list_NoVowelTest(pool, lines) ==
    LET Keep(word) ==
            /\ ~(Len(word) < MinWordLen \/ pool[1] \notin Range(word))
            /\ ReMatchAll(Range(pool), word)
    IN  SelectSeq(ReadWords(lines), Keep)

prepare_word_list(pool, lines) ==
    LET Keep(word) ==
            /\ ~(Len(word) < MinWordLen \/ pool[1] \notin Range(word))
            /\ ReMatchAll(Range(pool), word)
            /\ ReSearch(Vowels, word)
    IN  SelectSeq(ReadWords(lines), Keep)

----------------------------------------------------------------------------
(* SpellB.evaluate_word *)

\* Rejection with the length tested before the center letter
Rejection_LengthFirst(word, pool, words, found) ==
    IF ~ReMatchAll(Range(LowerAZ), word) THEN MsgInvalidChars
    ELSE IF Len(word) < MinWordLen THEN MsgTooShort
    ELSE IF pool[1] \notin Range(word) THEN MsgNoCenter
    ELSE IF word \notin Range(words) THEN MsgInvalidWord
    ELSE IF word \in Range(found) THEN MsgAlreadyFound
    ELSE ""

\* the rejections, in the order the code tests them; "" when the word passes
Rejection(word, pool, words, found) ==
    IF ~ReMatchAll(Range(LowerAZ), word) THEN MsgInvalidChars
    ELSE IF pool[1] \notin Range(word) THEN MsgNoCenter
    ELSE IF Len(word) < MinWordLen THEN MsgTooShort
    ELSE IF word \notin Range(words) THEN MsgInvalidWord
    ELSE IF word \in Range(found) THEN MsgAlreadyFound
    ELSE ""

\* WordValue with the bonus given to every word of seven letters or more
WordValue_BonusByLength(word, pool) ==
    LET value == IF Len(word) = MinWordLen THEN 1 ELSE Len(word)
    IN  IF Len(word) >= PoolSize
        THEN <<value + PangramBonus, MsgPangram>>
        ELSE <<value, "">>

\* the value and message of a word that passed
WordValue(word, pool) ==
    LET value == IF Len(word) = MinWordLen THEN 1 ELSE Len(word)
    IN  IF Len(word) >= PoolSize /\ \A i \in 1..Len(pool) : pool[i] \in Range(word)
        THEN <<value + PangramBonus, MsgPangram>>
        ELSE <<value, "">>

evaluate_word(word, pool, words, found) ==
    LET rejected == Rejection(word, pool, words, found)
    IN  IF rejected # "" THEN <<0, rejected>> ELSE WordValue(word, pool)

(* SpellB.__init__, the loop that sums best_possible_score; found_words is   *)
(* still empty there                                                         *)

\* BestPossibleScore with the words summed so far passed as the found words
RECURSIVE BestPossibleScore_Accumulating(_, _, _)
BestPossibleScore_Accumulating(i, pool, words) ==
    IF i > Len(words) THEN 0
    ELSE evaluate_word(words[i], pool, words, SubSeq(words, 1, i - 1))[1]
         + BestPossibleScore_Accumulating(i + 1, pool, words)

RECURSIVE BestPossibleScore(_, _, _)
BestPossibleScore(i, pool, words) ==
    IF i > Len(words) THEN 0
    ELSE evaluate_word(words[i], pool, words, <<>>)[1] + BestPossibleScore(i + 1, pool, words)

(* SpellB.execute_command: the candidates loop, with its break at the hidden *)
(* command                                                                   *)

RECURSIVE Candidates(_, _, _)
Candidates(i, acc, user_command) ==
    IF i > Len(COMMANDS) THEN acc
    ELSE LET command == COMMANDS[i] IN
         IF ~command.hidden
         THEN IF StartsWith(command.name, user_command)
              THEN Candidates(i + 1, Append(acc, command.name), user_command)
              ELSE Candidates(i + 1, acc, user_command)
         ELSE IF command.name = user_command
              THEN <<user_command>>
              ELSE Candidates(i + 1, acc, user_command)

candidate_commands(user_command) == Candidates(1, <<>>, user_command)

\* the command that runs, <<>> when the resolution fails
Resolved(user_command) ==
    LET c == candidate_commands(user_command)
    IN  IF Len(c) = 1 THEN c[1] ELSE <<>>

\* Shuffled with the center letter shuffled among the others
Shuffled_WholePool(pool) == Orderings(pool)

\* the letter pools a shuffle can leave
Shuffled(pool) == {<<pool[1]>> \o shuffled : shuffled \in Orderings(Tail(pool))}

----------------------------------------------------------------------------
(* Words, lines and pool arguments used as inputs *)

W_rate     == <<"r","a","t","e">>
W_tears    == <<"t","e","a","r","s">>
W_tasters  == <<"t","a","s","t","e","r","s">>
W_retains  == <<"r","e","t","a","i","n","s">>
W_restrain == <<"r","e","s","t","r","a","i","n">>
W_sane     == <<"s","a","n","e">>
W_tea      == <<"t","e","a">>
W_ear      == <<"e","a","r">>
W_tarn     == <<"t","a","r","n">>
W_trst     == <<"t","r","s","t">>
W_text     == <<"t","e","x","t">>
W_dont     == <<"d","o","n","'","t">>
W_t3a      == <<"t","3","a">>
W_sass     == <<"s","a","s","s">>
W_SASS     == <<"S","a","s","s">>

P_taserin  == <<"t","a","s","e","r","i","n">>
P_tasErin  == <<"t","a","s","E","r","i","n">>

Colon(name) == <<":">> \o name

----------------------------------------------------------------------------
(* The session: SpellB.__init__ followed by the input loop of __main__ *)

SessionDicts == { <<W_retains, W_trst, W_sass, W_sass>> }

\* <<>>: no --pool argument, the pool is generated
SessionPoolArgs == { P_tasErin, <<>> }

InputLines ==
    { W_sass, W_SASS, W_retains, W_rate, W_tea, W_ear, W_dont,
      Colon(CMD_cheat), Colon(CMD_list), Colon(CMD_quit),
      Colon(<<"s">>), Colon(<<"s","h","u">>), Colon(<<"c">>), <<>> }

\* SpellB.__init__: the pools the constructor can end with (none when it exits)
ConstructedPools(pool, lines) ==
    IF pool = <<>>
    THEN generate_letter_pool(lines)
    ELSE {o.letter_pool : o \in {v \in validate_letter_pool(pool) : v.exit = 0}}

\* the state SpellB.__init__ leaves
Constructed ==
    /\ dictionary \in SessionDicts
    /\ pool_arg \in SessionPoolArgs
    /\ letter_pool \in ConstructedPools(pool_arg, dictionary)
    /\ word_list = prepare_word_list(letter_pool, dictionary)
    /\ found_words = <<>>
    /\ score = 0
    /\ best_possible_score = BestPossibleScore(1, letter_pool, word_list)
    /\ points = 0
    /\ reason = ""
    /\ printed = ""
    /\ exit_code = -1

Init ==
    /\ pc = "input"
    /\ Constructed
    /\ user_input = <<>>

\* input().lower(); an empty line ends the loop and the program
ReadLine ==
    /\ pc = "input"
    /\ \E line \in InputLines :
        /\ user_input' = StrLower(line)
        /\ IF user_input' = <<>>
           THEN pc' = "done" /\ exit_code' = 0
           ELSE pc' = "dispatch" /\ UNCHANGED exit_code
    /\ UNCHANGED <<dictionary, pool_arg, letter_pool, word_list, found_words, score,
                   best_possible_score, points, reason, printed>>

\* EOFError or KeyboardInterrupt in input()
ReadInterrupted ==
    /\ pc = "input"
    /\ pc' = "done"
    /\ exit_code' = 0
    /\ UNCHANGED <<dictionary, pool_arg, letter_pool, word_list, found_words, score,
                   best_possible_score, user_input, points, reason, printed>>

IsCommandLine == user_input # <<>> /\ user_input[1] = ":"

\* execute_command when no command or several commands match
CommandFails ==
    /\ pc = "dispatch" /\ IsCommandLine
    /\ LET c == candidate_commands(Tail(user_input)) IN
        /\ Len(c) # 1
        /\ printed' = IF c = <<>> THEN MsgInvalidCmd ELSE MsgAmbiguousCmd
    /\ pc' = "continue"
    /\ UNCHANGED <<dictionary, pool_arg, letter_pool, word_list, found_words, score,
                   best_possible_score, user_input, points, reason, exit_code>>

\* execute_command for the commands that only print
CommandPrints ==
    /\ pc = "dispatch" /\ IsCommandLine
    /\ LET name == Resolved(Tail(user_input)) IN
        /\ name \in {CMD_cheat, CMD_help, CMD_list, CMD_score, CMD_show, CMD_target}
        /\ printed' = "command output"
    /\ pc' = "continue"
    /\ UNCHANGED <<dictionary, pool_arg, letter_pool, word_list, found_words, score,
                   best_possible_score, user_input, points, reason, exit_code>>

\* execute_command, case 'shuffle'
CommandShuffle ==
    /\ pc = "dispatch" /\ IsCommandLine
    /\ Resolved(Tail(user_input)) = CMD_shuffle
    /\ letter_pool' \in Shuffled(letter_pool)
    /\ printed' = "command output"
    /\ pc' = "continue"
    /\ UNCHANGED <<dictionary, pool_arg, word_list, found_words, score,
                   best_possible_score, user_input, points, reason, exit_code>>

\* execute_command, case 'quit'
CommandQuit ==
    /\ pc = "dispatch" /\ IsCommandLine
    /\ Resolved(Tail(user_input)) = CMD_quit
    /\ pc' = "done"
    /\ exit_code' = 0
    /\ UNCHANGED <<dictionary, pool_arg, letter_pool, word_list, found_words, score,
                   best_possible_score, user_input, points, reason, printed>>

\* SubmitWord recording the word whatever its points
SubmitWord_AlwaysRecorded(word) ==
    LET result == evaluate_word(word, letter_pool, word_list, found_words) IN
    /\ points' = result[1]
    /\ reason' = result[2]
    /\ score' = score + result[1]
    /\ found_words' = Append(found_words, word)

\* SubmitWord that adds the points and forgets the word
SubmitWord_NotRecorded(word) ==
    LET result == evaluate_word(word, letter_pool, word_list, found_words) IN
    /\ points' = result[1]
    /\ reason' = result[2]
    /\ score' = score + result[1]
    /\ UNCHANGED found_words

\* the loop body for a word: evaluate it, and count it when it earns points
SubmitWord(word) ==
    LET result == evaluate_word(word, letter_pool, word_list, found_words) IN
    /\ points' = result[1]
    /\ reason' = result[2]
    /\ IF result[1] # 0
       THEN /\ score' = score + result[1]
            /\ found_words' = Append(found_words, word)
       ELSE UNCHANGED <<score, found_words>>

WordSubmitted ==
    /\ pc = "dispatch" /\ ~IsCommandLine
    /\ SubmitWord(user_input)
    /\ pc' = "print"
    /\ UNCHANGED <<dictionary, pool_arg, letter_pool, word_list, best_possible_score,
                   user_input, printed, exit_code>>

\* print(f'+{points} {reason}'); the next iteration rebinds the loop's variables
PrintResult ==
    /\ pc = "print"
    /\ pc' = "input"
    /\ user_input' = <<>> /\ points' = 0 /\ reason' = "" /\ printed' = ""
    /\ UNCHANGED <<dictionary, pool_arg, letter_pool, word_list, found_words, score,
                   best_possible_score, exit_code>>

\* `continue` after a command
Continue ==
    /\ pc = "continue"
    /\ pc' = "input"
    /\ user_input' = <<>> /\ printed' = ""
    /\ UNCHANGED <<dictionary, pool_arg, letter_pool, word_list, found_words, score,
                   best_possible_score, points, reason, exit_code>>

Next ==
    \/ ReadLine
    \/ ReadInterrupted
    \/ CommandFails
    \/ CommandPrints
    \/ CommandShuffle
    \/ CommandQuit
    \/ WordSubmitted
    \/ PrintResult
    \/ Continue

Spec == Init /\ [][Next]_vars

----------------------------------------------------------------------------
(* evaluate_word as a function of its inputs: a word, a pool, the word list  *)
(* of a dictionary and a history of found words                              *)

MaxFound == 1

P_etasrin == <<"e","t","a","s","r","i","n">>

EvalPools == { P_taserin, P_etasrin }

EvalDict == <<W_rate, W_tears, W_tasters, W_retains, W_restrain, W_sane, W_trst>>

EvalWords ==
    { W_rate, W_tears, W_tasters, W_retains, W_restrain, W_sane, W_tea, W_ear,
      W_tarn, W_trst, W_text, W_dont, W_t3a, W_SASS }

\* the histories a session can have: words of the list, none twice
Histories(words, n) ==
    UNION { {h \in [1..k -> Range(words)] : \A i, j \in 1..k : h[i] = h[j] => i = j} :
            k \in 0..n }

InitEval ==
    /\ pc = "evaluate"
    /\ dictionary = EvalDict
    /\ pool_arg = <<>>
    /\ letter_pool \in EvalPools
    /\ word_list = prepare_word_list(letter_pool, dictionary)
    /\ found_words \in Histories(word_list, MaxFound)
    /\ score = 0
    /\ best_possible_score = 0
    /\ user_input \in EvalWords
    /\ points = 0
    /\ reason = ""
    /\ printed = ""
    /\ exit_code = -1

Evaluate ==
    /\ pc = "evaluate"
    /\ LET result == evaluate_word(user_input, letter_pool, word_list, found_words) IN
        /\ points' = result[1]
        /\ reason' = result[2]
    /\ pc' = "evaluated"
    /\ UNCHANGED <<dictionary, pool_arg, letter_pool, word_list, found_words, score,
                   best_possible_score, user_input, printed, exit_code>>

NextEval == Evaluate

SpecEval == InitEval /\ [][NextEval]_vars

\* the five checks of the specification, in its order, for the evaluated word
FailedChecks ==
    << ~(user_input # <<>> /\ \A i \in 1..Len(user_input) : user_input[i] \in Range(LowerAZ)),
       \A i \in 1..Len(user_input) : user_input[i] # letter_pool[1],
       Len(user_input) < 4,
       \A i \in 1..Len(word_list) : word_list[i] # user_input,
       \E i \in 1..Len(found_words) : found_words[i] = user_input >>

FailureReasons ==
    <<MsgInvalidChars, MsgNoCenter, MsgTooShort, MsgInvalidWord, MsgAlreadyFound>>

PassesAllChecks == \A k \in 1..5 : ~FailedChecks[k]

\* C1: evaluate_word returns 0 points and the reason of the first check that
\* fails, the checks taken in the order invalid characters, center letter
\* missing, too short, not a word, already found
C1_FirstFailingCheck ==
    (pc = "evaluated" /\ ~PassesAllChecks) =>
        LET first == CHOOSE k \in 1..5 :
                        FailedChecks[k] /\ \A j \in 1..(k - 1) : ~FailedChecks[j]
        IN  points = 0 /\ reason = FailureReasons[first]

\* a word shorter than 4 and without the center letter, reported as lacking the center
C1_Witness ==
    /\ pc = "evaluated"
    /\ user_input = W_ear /\ letter_pool[1] = "t"
    /\ points = 0 /\ reason = MsgNoCenter

\* C2: a word that passes the five checks scores 1 if its length is 4 and its
\* length otherwise, plus 7 exactly when it has at least 7 letters and holds
\* every letter of the pool
C2_Scoring ==
    (pc = "evaluated" /\ PassesAllChecks) =>
        LET base  == IF Len(user_input) = 4 THEN 1 ELSE Len(user_input)
            bonus == IF Len(user_input) >= 7 /\ Range(letter_pool) \subseteq Range(user_input)
                     THEN 7 ELSE 0
        IN  points = base + bonus

\* a word of seven letters that lacks a pool letter scores 7
C2_Witness ==
    /\ pc = "evaluated"
    /\ user_input = W_tasters /\ found_words = <<>>
    /\ points = 7

----------------------------------------------------------------------------
(* prepare_word_list as a function of the pool and the dictionary *)

MaxDictLen == 3

L_blank  == <<>>
L_padded == <<" ", "t", "e", "a", "r", "s", " ">>

PrepLines == { W_rate, W_retains, W_sane, W_tea, W_trst, W_text, L_blank, L_padded }

Dictionaries(n) == UNION { [1..k -> PrepLines] : k \in 0..n }

InitPrep ==
    /\ pc = "prepare"
    /\ dictionary \in Dictionaries(MaxDictLen)
    /\ letter_pool \in EvalPools
    /\ pool_arg = <<>>
    /\ word_list = <<>>
    /\ found_words = <<>>
    /\ score = 0
    /\ best_possible_score = 0
    /\ user_input = <<>>
    /\ points = 0
    /\ reason = ""
    /\ printed = ""
    /\ exit_code = -1

Prepare ==
    /\ pc = "prepare"
    /\ word_list' = prepare_word_list(letter_pool, dictionary)
    /\ pc' = "prepared"
    /\ UNCHANGED <<dictionary, pool_arg, letter_pool, found_words, score,
                   best_possible_score, user_input, points, reason, printed, exit_code>>

NextPrep == Prepare

SpecPrep == InitPrep /\ [][NextPrep]_vars

\* a word the specification calls valid for the current pool
ValidForPool(word) ==
    /\ Len(word) >= 4
    /\ \E i \in 1..Len(word) : word[i] = letter_pool[1]
    /\ \A i \in 1..Len(word) : \E k \in 1..Len(letter_pool) : word[i] = letter_pool[k]
    /\ \E i \in 1..Len(word) : word[i] \in {"a", "e", "i", "o", "u", "y"}

\* C4: the list built by prepare_word_list holds no word shorter than 4, none
\* without the center letter, none with a character outside the pool and none
\* without one of a, e, i, o, u, y
C4_OnlyValidWords ==
    pc = "prepared" => \A i \in 1..Len(word_list) : ValidForPool(word_list[i])

\* a dictionary of three lines of which one is kept and two are filtered out
C4_Witness ==
    /\ pc = "prepared"
    /\ dictionary = <<W_trst, W_rate, W_tea>>
    /\ word_list = <<W_rate>>

RECURSIVE IsSubsequence(_, _)
IsSubsequence(s, t) ==
    IF s = <<>> THEN TRUE
    ELSE IF t = <<>> THEN FALSE
    ELSE IF Head(s) = Head(t) THEN IsSubsequence(Tail(s), Tail(t))
    ELSE IsSubsequence(s, Tail(t))

\* C5: every line of the dictionary that is valid for the pool, wherever it
\* stands in the file, is in the list built by prepare_word_list, in
\* dictionary order
C5_AllValidLinesKept ==
    pc = "prepared" => IsSubsequence(SelectSeq(dictionary, ValidForPool), word_list)

----------------------------------------------------------------------------
(* validate_letter_pool as a function of the --pool argument *)

MaxCaps == 2

PoolBases ==
    { P_taserin,
      <<"t","a","s","e","r","i","n","t">>,
      <<"t","a","s","e","r","i">>,
      <<"t","a","s","e","r","i","n","x">>,
      <<"t","a","s","3","r","i","n">>,
      <<"t","a","s","é","r","i","n">> }

\* the string with the letters at the given positions in capitals
Capitalised(base, at) ==
    [i \in 1..Len(base) |-> IF i \in at THEN CharUpper(base[i]) ELSE base[i]]

PoolArgs ==
    UNION { {Capitalised(b, at) : at \in {x \in SUBSET (1..Len(b)) : Cardinality(x) <= MaxCaps}} :
            b \in PoolBases }

InitPool ==
    /\ pc = "validate"
    /\ pool_arg \in PoolArgs
    /\ dictionary = <<>>
    /\ letter_pool = <<>>
    /\ word_list = <<>>
    /\ found_words = <<>>
    /\ score = 0
    /\ best_possible_score = 0
    /\ user_input = <<>>
    /\ points = 0
    /\ reason = ""
    /\ printed = ""
    /\ exit_code = -1

Validate ==
    /\ pc = "validate"
    /\ \E outcome \in validate_letter_pool(pool_arg) :
        /\ letter_pool' = outcome.letter_pool
        /\ printed' = outcome.message
        /\ IF outcome.exit = 0
           THEN pc' = "validated" /\ UNCHANGED exit_code
           ELSE pc' = "done" /\ exit_code' = outcome.exit
    /\ UNCHANGED <<dictionary, pool_arg, word_list, found_words, score,
                   best_possible_score, user_input, points, reason>>

NextPool == Validate

SpecPool == InitPool /\ [][NextPool]_vars

CapitalPositions == {i \in 1..Len(pool_arg) : pool_arg[i] \in Range(UpperAZ)}

LoweredLetters == {CharLower(pool_arg[i]) : i \in 1..Len(pool_arg)}

\* the failure the specification gives the argument, "" when it is a valid pool
ExpectedPoolFailure ==
    IF \E i \in 1..Len(pool_arg) : pool_arg[i] \notin Range(LowerAZ) \cup Range(UpperAZ)
    THEN MsgPoolChars
    ELSE IF Cardinality(CapitalPositions) > 1 THEN MsgPoolFormat
    ELSE IF Cardinality(LoweredLetters) # 7 THEN MsgPoolCount
    ELSE ""

\* C8: validate_letter_pool fails with InvalidCharacters, else AmbiguousCenter,
\* else WrongLetterCount, in this order of precedence, each with a non-zero
\* exit status; otherwise the pool is the capital letter lowercased, or
\* without a capital the first character, followed by the 6 other letters
C8_ValidatePool ==
    pc # "validate" =>
        IF ExpectedPoolFailure # ""
        THEN pc = "done" /\ exit_code > 0 /\ printed = ExpectedPoolFailure
        ELSE /\ pc = "validated" /\ exit_code = -1
             /\ Len(letter_pool) = 7
             /\ letter_pool[1] = IF CapitalPositions # {}
                                 THEN CharLower(pool_arg[CHOOSE i \in CapitalPositions : TRUE])
                                 ELSE pool_arg[1]
             /\ {letter_pool[i] : i \in 2..7} = LoweredLetters \ {letter_pool[1]}

\* a pool whose capital is not its first character
C8_Witness ==
    /\ pc = "validated"
    /\ pool_arg = P_tasErin
    /\ letter_pool = <<"e", "n", "i", "r", "s", "a", "t">>

----------------------------------------------------------------------------
(* One word submitted twice in a row to a new session *)

TwiceWords == { W_sass, W_retains, W_rate, W_tea, W_ear, W_dont }

InitTwice ==
    /\ pc = "first"
    /\ Constructed
    /\ user_input \in TwiceWords

FirstSubmission ==
    /\ pc = "first"
    /\ SubmitWord(user_input)
    /\ pc' = "second"
    /\ UNCHANGED <<dictionary, pool_arg, letter_pool, word_list, best_possible_score,
                   user_input, printed, exit_code>>

SecondSubmission ==
    /\ pc = "second"
    /\ SubmitWord(user_input)
    /\ pc' = "twice"
    /\ UNCHANGED <<dictionary, pool_arg, letter_pool, word_list, best_possible_score,
                   user_input, printed, exit_code>>

NextTwice == FirstSubmission \/ SecondSubmission

SpecTwice == InitTwice /\ [][NextTwice]_vars

\* C3 as stated: whatever the word, its second evaluation yields 0 points and
\* Already found
C3_AnyWordAlreadyFound ==
    pc = "twice" => (points = 0 /\ reason = MsgAlreadyFound)

\* C3: a word that the first evaluation, with an empty history, accepts is
\* given 0 points and Already found by the evaluation that follows; a word the
\* first evaluation rejects is rejected again with the same reason
C3_AcceptedWordAlreadyFound ==
    [][ /\ (pc = "second" /\ points > 0) => (points' = 0 /\ reason' = MsgAlreadyFound)
        /\ (pc = "second" /\ points = 0) => (points' = 0 /\ reason' = reason) ]_vars

\* the pangram submitted twice
C3_Witness ==
    /\ pc = "twice"
    /\ user_input = W_retains
    /\ found_words = <<W_retains>>
    /\ points = 0 /\ reason = MsgAlreadyFound

----------------------------------------------------------------------------
(* Properties of the session *)

RECURSIVE SumSeq(_)
SumSeq(s) == IF s = <<>> THEN 0 ELSE Head(s) + SumSeq(Tail(s))

\* the points evaluate_word gives a word when nothing has been found
IsolatedPoints(word) == evaluate_word(word, letter_pool, word_list, <<>>)[1]

\* C6: best_possible_score is the sum, over the words of the word list, of
\* the points evaluate_word gives each with an empty history, and no step of
\* the session changes it
C6_BestPossibleScore ==
    /\ [](best_possible_score =
            SumSeq([i \in 1..Len(word_list) |-> IsolatedPoints(word_list[i])]))
    /\ [][best_possible_score' = best_possible_score]_vars

\* a session with a word found and the pool shuffled, the target unchanged
C6_Witness ==
    /\ pc = "continue"
    /\ Resolved(Tail(user_input)) = CMD_shuffle
    /\ word_list = <<W_retains, W_sass, W_sass>>
    /\ found_words = <<W_sass>>
    /\ best_possible_score = 16

\* a step that rejects a word or fails to resolve a command
RejectingStep ==
    /\ pc = "dispatch"
    /\ \/ ~IsCommandLine /\ points' = 0
       \/ IsCommandLine /\ printed' \in {MsgInvalidCmd, MsgAmbiguousCmd}

\* C7: a rejected word and a command that is invalid or ambiguous leave
\* score, found_words, the letter pool, the word list and best_possible_score
\* unchanged, and the loop goes on to read the next line
C7_RejectionsChangeNothing ==
    [][ /\ RejectingStep =>
            /\ UNCHANGED <<score, found_words, letter_pool, word_list, best_possible_score>>
            /\ pc' \in {"print", "continue"}
            /\ exit_code' = -1
        /\ pc \in {"print", "continue"} => (pc' = "input" /\ exit_code' = -1) ]_vars

\* a word rejected as already found, the session still holding its points
C7_Witness ==
    /\ pc = "print"
    /\ points = 0 /\ reason = MsgAlreadyFound
    /\ found_words = <<W_sass, W_retains>>
    /\ score = 15

\* a step that runs the shuffle command
ShuffleStep ==
    /\ pc = "dispatch" /\ IsCommandLine
    /\ Resolved(Tail(user_input)) = CMD_shuffle

\* C9: the letter pool is always 7 distinct lowercase letters; no step changes
\* its first letter or its set of letters; a shuffle changes neither score,
\* found_words nor the word list
C9_PoolPreserved ==
    /\ [](/\ Len(letter_pool) = 7
          /\ \A i \in 1..7 : letter_pool[i] \in Range(LowerAZ)
          /\ \A i, j \in 1..7 : letter_pool[i] = letter_pool[j] => i = j)
    /\ [][ /\ letter_pool'[1] = letter_pool[1]
           /\ Range(letter_pool') = Range(letter_pool)
           /\ UNCHANGED <<score, found_words, word_list>> \/ ~ShuffleStep ]_vars

\* a shuffle, after a word was found, that moved every petal
C9_Witness ==
    /\ pc = "continue"
    /\ Resolved(Tail(user_input)) = CMD_shuffle
    /\ pool_arg = P_tasErin
    /\ letter_pool = <<"e", "n", "i", "r", "s", "a", "t">>
    /\ found_words = <<W_retains>>

\* C10: found_words holds no word twice and only words of the word list;
\* score is the sum of the points each found word earns with an empty history;
\* so 0 <= score <= best_possible_score, with equality only when every word of
\* the word list is found
C10_ScoreMatchesFoundWords ==
    /\ \A i, j \in 1..Len(found_words) : found_words[i] = found_words[j] => i = j
    /\ \A i \in 1..Len(found_words) : found_words[i] \in Range(word_list)
    /\ score = SumSeq([i \in 1..Len(found_words) |-> IsolatedPoints(found_words[i])])
    /\ 0 <= score /\ score <= best_possible_score
    /\ score = best_possible_score => Range(word_list) \subseteq Range(found_words)

\* every word of the list found, the score at the target
C10_Witness ==
    /\ pc = "input"
    /\ word_list = <<W_retains>>
    /\ found_words = <<W_retains>>
    /\ score = 14 /\ best_possible_score = 14

====
